---- MODULE Spec2Model ----
(***************************************************************************)
(* dp-alpha: opens the DRM device, discovers connector / mode / encoder /  *)
(* CRTC, creates a dumb buffer with a framebuffer and a CPU mapping, fills *)
(* it with a chessboard, binds it with drmModeSetCrtc and waits for input. *)
(*                                                                         *)
(* The model follows main() of src/dp-alpha.cpp statement by statement.    *)
(* Every library / kernel call the program issues is appended to `calls`,  *)
(* with its arguments and its result, so that orderings and counts over a  *)
(* whole run are state predicates over the final value of `calls`.         *)
(* C++ object lifetime is modelled as the language defines it: when a      *)
(* constructor throws, the destructor of that object does not run, the     *)
(* already constructed members are destroyed, and locals of the enclosing  *)
(* try block are destroyed in reverse order of construction.               *)
(***************************************************************************)
EXTENDS Integers, Sequences, FiniteSets

\* ---------------------------------------------------------------- bounds
MaxConnectors == 2
MaxCrtcs == 2
MaxModes == 2
MaxTiles == 2

\* ------------------------------------------------------- values and types
\* A pointer to a library descriptor is <<>> (null) or <<descriptor>>.
nullptr == <<>>
Ptr(d) == <<d>>
Deref(p) == p[1]

\* drmModeConnection values (xf86drmMode.h); only DRM_MODE_CONNECTED is tested.
ConnectionValues == {"DRM_MODE_CONNECTED", "DRM_MODE_DISCONNECTED", "DRM_MODE_UNKNOWNCONNECTION"}

\* drmModeModeInfo, reduced to the two fields the program reads.
ModeValues == {[hdisplay |-> 2, vdisplay |-> 1], [hdisplay |-> 1, vdisplay |-> 2]}
NoMode == [hdisplay |-> 0, vdisplay |-> 0]

\* Object ids are what the kernel puts in the resource lists: non-zero,
\* distinct per list position.
ConnectorId(i) == 30 + i
CrtcId(i) == 40 + i
EncoderIds == {0, 50}

\* The mode lists a connector may advertise: at most MaxModes distinct modes.
ModeLists(n) ==
    {s \in UNION {[1..k -> ModeValues] : k \in 0..n} :
        \A a, b \in DOMAIN s : a # b => s[a] # s[b]}

\* What drmModeGetResources may return: null, or a list of connector ids and
\* a list of CRTC ids (position p of the lists holds ConnectorId(p), CrtcId(p)).
ResourceResults ==
    {nullptr} \cup
    {Ptr([count_connectors |-> nc, count_crtcs |-> ncr]) :
        nc \in 0..MaxConnectors, ncr \in 0..MaxCrtcs}

\* What drmModeGetConnector may return for list position i: null, or a
\* descriptor with a connection state, the current encoder id and the modes.
\* The kernel reports modes and an encoder only for a connected connector.
ConnectorResults(i) ==
    {nullptr} \cup
    {Ptr([connector_id |-> ConnectorId(i), connection |-> "DRM_MODE_CONNECTED",
          encoder_id |-> e, modes |-> m]) :
        e \in EncoderIds, m \in ModeLists(MaxModes)} \cup
    {Ptr([connector_id |-> ConnectorId(i), connection |-> c,
          encoder_id |-> 0, modes |-> <<>>]) :
        c \in ConnectionValues \ {"DRM_MODE_CONNECTED"}}

\* What drmModeGetEncoder may return: null, or a descriptor with the CRTC the
\* encoder is bound to (0: none) and the bitmask of CRTCs it can drive.
EncoderResults(id) ==
    IF id = 0 THEN {nullptr} ELSE
    {nullptr} \cup
    {Ptr([encoder_id |-> id, crtc_id |-> c, possible_crtcs |-> pm]) :
        c \in {0} \cup {CrtcId(k) : k \in 0..(MaxCrtcs - 1)},
        pm \in 0..(2^MaxCrtcs - 1)}

\* Command lines: argv[1..] as strings, a string as a sequence of characters.
ArgvValues ==
    {<<>>, << <<"p">> >>, << <<"s">> >>, << <<"x">> >>, << <<"p", "x">> >>,
     << <<>> >>, << <<"p">>, <<"s">> >>}

\* One issued call: its name, its arguments and what it returned.
Call(op, args, ret) == [op |-> op, args |-> args, ret |-> ret]

\* Error numbers a failing call may leave in errno.
ErrnoValues == {"EINVAL", "ENOMEM"}

\* A call that failed, with the error number it stored in errno.
Errored(c, e) == [op |-> c.op, args |-> c.args, ret |-> c.ret, errno |-> e]

\* The results of n calls whose return value the code ignores: each succeeds
\* ("ok") or fails, and then leaves ENOMEM in errno.
IgnoredResults(n) == [1..n -> {"ok", "ENOMEM"}]

\* The calls cs as issued with the results rs.
Issued(cs, rs) ==
    [k \in 1..Len(cs) |->
        IF rs[k] = "ok" THEN cs[k] ELSE Errored([cs[k] EXCEPT !.ret = -1], rs[k])]

\* errno after calls with the results rs, starting from e: a failing call
\* stores its error number, a successful call leaves errno alone.
RECURSIVE ErrnoAfter(_, _)
ErrnoAfter(e, rs) ==
    IF Len(rs) = 0 THEN e
    ELSE ErrnoAfter(IF rs[1] = "ok" THEN e ELSE rs[1], [k \in 1..(Len(rs) - 1) |-> rs[k + 1]])

VARIABLES
    pc,          \* position of the single thread in main()
    argv,        \* the arguments after the program name
    premultiplied,
    exc,         \* what() of the exception in flight, "" when none
    exc_code,    \* code() of a std::system_error in flight, "none" otherwise
    errno,       \* the thread's errno, "none" while no call has failed
    calls,       \* every library / kernel call issued so far, in order
    out,         \* lines written to std::cout / std::cerr, in order
    status,      \* value returned by main()
    _fd,         \* autofd::_fd (DrmDevice::_fd)
    _resources, _connector, _encoder, _mode, _crtc_id,   \* DrmDevice
    i,           \* loop index of the connector scan
    _width, _height, _fb_id, _handle, _pitch, _size, _mapped,  \* DrmBuffer
    pixels       \* the words of the mapped buffer, word k at position k + 1

dev == <<_fd, _resources, _connector, _encoder, _mode, _crtc_id, i>>
buf == <<_width, _height, _fb_id, _handle, _pitch, _size, _mapped, pixels>>
io == <<out, status>>
vars == <<pc, argv, premultiplied, exc, exc_code, errno, calls, dev, buf, io>>

Init ==
    /\ pc = "main"
    /\ argv \in ArgvValues
    /\ premultiplied = FALSE
    /\ exc = ""
    /\ exc_code = "none"
    /\ errno = "none"
    /\ calls = <<>>
    /\ out = <<>>
    /\ status = 0
    /\ _fd = -1
    /\ _resources = nullptr
    /\ _connector = nullptr
    /\ _encoder = nullptr
    /\ _mode = NoMode
    /\ _crtc_id = 0
    /\ i = 0
    /\ _width = 0 /\ _height = 0
    /\ _fb_id = 0
    /\ _handle = 0 /\ _pitch = 0 /\ _size = 0
    /\ _mapped = "nullptr"
    /\ pixels = <<>>

\* ------------------------------------------------------------ exceptions
\* throw: remember what() and continue at the first step of the unwinding.
Throw(msg, handler) ==
    /\ exc' = msg
    /\ pc' = handler

\* throw std::runtime_error(msg): no error code travels with it.
throw_runtime_error(msg, handler) ==
    /\ Throw(msg, handler)
    /\ exc_code' = "none"
    /\ UNCHANGED errno

\* throw std::system_error(errno, std::system_category(), msg): the code is
\* the value errno has when the throw expression is evaluated.
throw_system_error(errno_now, msg, handler) ==
    /\ Throw(msg, handler)
    /\ exc_code' = errno_now
    /\ errno' = errno_now

Line(stream, text, what) == [stream |-> stream, text |-> text, what |-> what]

\* ------------------------------------------------------------------ main
\* usage(): three lines on std::cout, returns -1.
usage ==
    /\ out' = out \o << Line("cout", "Usage: dp-alpha p|s", ""),
                        Line("cout", "\tp: use premultiplied alpha", ""),
                        Line("cout", "\ts: use straight alpha", "") >>
    /\ status' = -1
    /\ pc' = "exited"

\* argv[1][0]; the first character of an empty string is its terminator.
FirstChar(arg) == IF Len(arg) = 0 THEN "NUL" ELSE arg[1]

\* argc != 2
WrongArgc(av) == Len(av) # 1

\* main(), argument handling.
Main_args ==
    /\ pc = "main"
    /\ IF WrongArgc(argv)
       THEN usage /\ UNCHANGED premultiplied
       ELSE IF FirstChar(argv[1]) = "p"
            THEN premultiplied' = TRUE /\ pc' = "open" /\ UNCHANGED io
            ELSE IF FirstChar(argv[1]) = "s"
                 THEN premultiplied' = FALSE /\ pc' = "open" /\ UNCHANGED io
                 ELSE usage /\ UNCHANGED premultiplied
    /\ UNCHANGED <<argv, exc, errno, exc_code, calls, dev, buf>>

\* ---------------------------------------------------------------- autofd
\* autofd::autofd, as the member initialiser of DrmDevice::_fd.  When open
\* fails no autofd exists, so nothing is destroyed before the handler runs.
autofd_ctor ==
    /\ pc = "open"
    /\ \/ /\ _fd' = 3
          /\ calls' = Append(calls, Call("open", <<"/dev/dri/card0">>, 3))
          /\ pc' = "getres"
          /\ UNCHANGED <<exc, errno, exc_code>>
       \/ \E e \in ErrnoValues :
            /\ calls' = Append(calls, Errored(Call("open", <<"/dev/dri/card0">>, -1), e))
            /\ throw_system_error(e, "Failed to open file", "catch")
            /\ UNCHANGED _fd
    /\ UNCHANGED <<argv, premultiplied, _resources, _connector, _encoder, _mode,
                   _crtc_id, i, buf, io>>

\* Variant of autofd::~autofd that does not close the descriptor.
autofd_dtor_calls_none(fd) == <<>>

\* autofd::~autofd
autofd_dtor_calls(fd) == << Call("close", <<fd>>, 0) >>

\* ----------------------------------------------------- DrmDevice::initialize
\* drmModeGetResources and its null check.
GetResources ==
    /\ pc = "getres"
    /\ \E r \in ResourceResults :
         /\ calls' = Append(calls, Call("drmModeGetResources", <<_fd>>, r))
         /\ _resources' = r
         /\ IF r = nullptr
            THEN throw_runtime_error("Failed to get DRM resources", "ctor_unwind")
            ELSE pc' = "scan" /\ UNCHANGED <<exc, errno, exc_code>>
    /\ i' = 0
    /\ UNCHANGED <<argv, premultiplied, _fd, _connector, _encoder, _mode, _crtc_id, buf, io>>

\* Variant of the break test that accepts every state but "disconnected".
IsConnected_loose(connection) == connection # "DRM_MODE_DISCONNECTED"

\* _connector->connection == DRM_MODE_CONNECTED
IsConnected(connection) == connection = "DRM_MODE_CONNECTED"

\* Variant of the scan loop that forgets the descriptor without freeing it.
ScanDiscard_none(id) == <<>>

\* The body of the scan loop after the break test failed: free and forget.
ScanDiscard(id) == << Call("drmModeFreeConnector", <<id>>, 0) >>

\* One iteration of the connector scan.  A null result is dereferenced by the
\* code: the process is killed, or the read yields some value and the run
\* goes on with a null _connector (drmModeFreeConnector(NULL) frees nothing).
ScanConnector ==
    /\ pc = "scan"
    /\ i < Deref(_resources).count_connectors
    /\ \E c \in ConnectorResults(i) :
         LET q == Call("drmModeGetConnector", <<_fd, ConnectorId(i)>>, c) IN
         IF c # nullptr
         THEN IF IsConnected(Deref(c).connection)
              THEN /\ _connector' = c
                   /\ calls' = Append(calls, q)
                   /\ pc' = "checkconn"
                   /\ UNCHANGED i
              ELSE /\ _connector' = nullptr
                   /\ calls' = Append(calls, q) \o ScanDiscard(Deref(c).connector_id)
                   /\ i' = i + 1
                   /\ pc' = "scan"
         ELSE \/ /\ pc' = "crashed"
                 /\ _connector' = c
                 /\ calls' = Append(calls, q)
                 /\ UNCHANGED i
              \/ \E v \in ConnectionValues :
                   IF IsConnected(v)
                   THEN /\ _connector' = c
                        /\ calls' = Append(calls, q)
                        /\ pc' = "checkconn"
                        /\ UNCHANGED i
                   ELSE /\ _connector' = nullptr
                        /\ calls' = Append(calls, q) \o ScanDiscard(0)
                        /\ i' = i + 1
                        /\ pc' = "scan"
    /\ UNCHANGED <<argv, premultiplied, exc, errno, exc_code, _fd, _resources, _encoder, _mode, _crtc_id, buf, io>>

\* The loop condition fails: the scan ends with _connector null.
ScanEnd ==
    /\ pc = "scan"
    /\ i >= Deref(_resources).count_connectors
    /\ pc' = "checkconn"
    /\ UNCHANGED <<argv, premultiplied, exc, errno, exc_code, calls, dev, buf, io>>

\* if (!_connector) throw; _mode = _connector->modes[0].  With no mode the
\* read is outside the array: the process is killed or some mode is read.
SelectMode ==
    /\ pc = "checkconn"
    /\ IF _connector = nullptr
       THEN throw_runtime_error("No connected connector found", "ctor_unwind") /\ UNCHANGED _mode
       ELSE IF Len(Deref(_connector).modes) > 0
            THEN /\ _mode' = Deref(_connector).modes[1]
                 /\ pc' = "getenc"
                 /\ UNCHANGED <<exc, errno, exc_code>>
            ELSE \/ pc' = "crashed" /\ UNCHANGED <<_mode, exc, errno, exc_code>>
                 \/ /\ _mode' \in ModeValues
                    /\ pc' = "getenc"
                    /\ UNCHANGED <<exc, errno, exc_code>>
    /\ UNCHANGED <<argv, premultiplied, calls, _fd, _resources, _connector, _encoder,
                   _crtc_id, i, buf, io>>

\* drmModeGetEncoder and its null check.
GetEncoder ==
    /\ pc = "getenc"
    /\ \E e \in EncoderResults(Deref(_connector).encoder_id) :
         /\ calls' = Append(calls, Call("drmModeGetEncoder",
                                        <<_fd, Deref(_connector).encoder_id>>, e))
         /\ _encoder' = e
         /\ IF e = nullptr
            THEN throw_runtime_error("Failed to get encoder", "ctor_unwind")
            ELSE pc' = "crtc" /\ UNCHANGED <<exc, errno, exc_code>>
    /\ UNCHANGED <<argv, premultiplied, _fd, _resources, _connector, _mode, _crtc_id, i, buf, io>>

\* _encoder->possible_crtcs & (1 << k)
BitSet(mask, k) == (mask \div (2^k)) % 2 = 1

\* Variant of the CRTC loop without its break: the last eligible CRTC wins.
ResolveCrtc_nobreak(enc, res) ==
    IF enc.crtc_id # 0 THEN enc.crtc_id
    ELSE LET ks == {k \in 0..(res.count_crtcs - 1) :
                       (enc.possible_crtcs \div (2^k)) % 2 = 1}
         IN  IF ks = {} THEN 0
             ELSE CrtcId(CHOOSE k \in ks : \A m \in ks : k >= m)

\* The CRTC the code ends with: the encoder's own, else resources->crtcs[k]
\* for the first k < count_crtcs whose bit is set, else 0.
ResolveCrtc(enc, res) ==
    IF enc.crtc_id # 0 THEN enc.crtc_id
    ELSE LET ks == {k \in 0..(res.count_crtcs - 1) : BitSet(enc.possible_crtcs, k)}
         IN  IF ks = {} THEN 0
             ELSE CrtcId(CHOOSE k \in ks : \A m \in ks : k <= m)

\* _crtc_id resolution and the final check of initialize().
FindCrtc ==
    /\ pc = "crtc"
    /\ _crtc_id' = ResolveCrtc(Deref(_encoder), Deref(_resources))
    /\ IF _crtc_id' = 0
       THEN throw_runtime_error("Failed to find CRTC", "ctor_unwind")
       ELSE pc' = "alloc" /\ UNCHANGED <<exc, errno, exc_code>>
    /\ UNCHANGED <<argv, premultiplied, calls, _fd, _resources, _connector, _encoder,
                   _mode, i, buf, io>>

\* DrmDevice::DrmDevice left by an exception of initialize(): ~DrmDevice does
\* not run; the constructed member _fd is destroyed.
DrmDevice_ctor_unwind ==
    /\ pc = "ctor_unwind"
    /\ calls' = calls \o autofd_dtor_calls(_fd)
    /\ pc' = "catch"
    /\ UNCHANGED <<argv, premultiplied, exc, errno, exc_code, dev, buf, io>>

\* ------------------------------------------------------ DrmBuffer::create
\* What DRM_IOCTL_MODE_CREATE_DUMB may report for a width x height request
\* at 32 bpp: a non-zero handle, a pitch (aligned up by the driver) and the
\* size pitch * height.
HandleValues == {1}
PitchValues(width) == {4 * width, 4 * width + 4}
\* Framebuffer ids drmModeAddFB2 may assign: non-zero object ids.
FbIdValues == {60}

DestroyDumb(fd, handle) == Call("DRM_IOCTL_MODE_DESTROY_DUMB", <<fd, handle>>, 0)
RmFB(fd, fb_id) == Call("drmModeRmFB", <<fd, fb_id>>, 0)

\* Variant that records the width in pixels as the stride.
StoredPitch_width(create_req) == create_req.width

\* _pitch = create_req.pitch
StoredPitch(create_req) == create_req.pitch

\* DrmDevice::create_buffer, DrmBuffer::DrmBuffer and the first step of
\* create(): the dumb buffer.  A throw out of create() leaves the DrmBuffer
\* constructor, so ~DrmBuffer never runs for it; drm_device is destroyed.
CreateDumb ==
    /\ pc = "alloc"
    /\ _width' = _mode.hdisplay
    /\ _height' = _mode.vdisplay
    /\ LET args == <<_fd, _mode.hdisplay, _mode.vdisplay, 32>> IN
       \/ \E h \in HandleValues, p \in PitchValues(_mode.hdisplay) :
            LET create_req == [width |-> _mode.hdisplay, height |-> _mode.vdisplay,
                               bpp |-> 32, handle |-> h, pitch |-> p,
                               size |-> p * _mode.vdisplay]
            IN  /\ calls' = Append(calls, Call("DRM_IOCTL_MODE_CREATE_DUMB", args, 0))
                /\ _handle' = create_req.handle
                /\ _pitch' = StoredPitch(create_req)
                /\ _size' = create_req.size
                /\ pc' = "addfb"
                /\ UNCHANGED <<exc, errno, exc_code>>
       \/ \E e \in ErrnoValues :
            /\ calls' = Append(calls, Errored(Call("DRM_IOCTL_MODE_CREATE_DUMB", args, -1), e))
            /\ throw_system_error(e, "Failed to create dumb buffer", "dev_dtor")
            /\ UNCHANGED <<_handle, _pitch, _size>>
    /\ UNCHANGED <<argv, premultiplied, dev, _fb_id, _mapped, pixels, io>>

\* Variant of the drmModeAddFB2 failure block that leaks the dumb buffer.
AddFB2_failed_leak(fd, handle) == <<>>

\* The block run when drmModeAddFB2 fails.
AddFB2_failed(fd, handle) == << DestroyDumb(fd, handle) >>

\* drmModeAddFB2; the logged result is the id stored through buf_id, or -1.
\* The failure block runs between the failed call and the throw expression
\* that reads errno.
AddFB2 ==
    /\ pc = "addfb"
    /\ LET args == <<_fd, _width, _height, "DRM_FORMAT_ARGB8888", _handle, _pitch, 0>> IN
       \/ \E f \in FbIdValues :
            /\ calls' = Append(calls, Call("drmModeAddFB2", args, f))
            /\ _fb_id' = f
            /\ pc' = "mapdumb"
            /\ UNCHANGED <<exc, errno, exc_code>>
       \/ \E e \in ErrnoValues :
          \E rs \in IgnoredResults(Len(AddFB2_failed(_fd, _handle))) :
            /\ calls' = Append(calls, Errored(Call("drmModeAddFB2", args, -1), e))
                           \o Issued(AddFB2_failed(_fd, _handle), rs)
            /\ throw_system_error(ErrnoAfter(e, rs), "Failed to add framebuffer", "dev_dtor")
            /\ UNCHANGED _fb_id
    /\ UNCHANGED <<argv, premultiplied, dev, _width, _height, _handle, _pitch, _size,
                   _mapped, pixels, io>>

\* The block run when DRM_IOCTL_MODE_MAP_DUMB fails.
MapDumb_failed(fd, fb_id, handle) == << RmFB(fd, fb_id), DestroyDumb(fd, handle) >>

\* DRM_IOCTL_MODE_MAP_DUMB
MapDumb ==
    /\ pc = "mapdumb"
    /\ \/ /\ calls' = Append(calls, Call("DRM_IOCTL_MODE_MAP_DUMB", <<_fd, _handle>>, 0))
          /\ pc' = "mmap"
          /\ UNCHANGED <<exc, errno, exc_code>>
       \/ \E e \in ErrnoValues :
          \E rs \in IgnoredResults(Len(MapDumb_failed(_fd, _fb_id, _handle))) :
            /\ calls' = Append(calls, Errored(Call("DRM_IOCTL_MODE_MAP_DUMB",
                                                   <<_fd, _handle>>, -1), e))
                           \o Issued(MapDumb_failed(_fd, _fb_id, _handle), rs)
            /\ throw_system_error(ErrnoAfter(e, rs), "Failed to map dumb buffer", "dev_dtor")
    /\ UNCHANGED <<argv, premultiplied, dev, buf, io>>

\* Variant of the mmap failure block that destroys the buffer first.
Mmap_failed_swapped(fd, fb_id, handle) == << DestroyDumb(fd, handle), RmFB(fd, fb_id) >>

\* The block run when mmap returns MAP_FAILED.
Mmap_failed(fd, fb_id, handle) == << RmFB(fd, fb_id), DestroyDumb(fd, handle) >>

\* A 32-bit ARGB word is written as its four bytes <<A, R, G, B>>.
\* What the words of a fresh mapping may hold before the program writes.
InitialWords == {<<0, 0, 0, 0>>, <<18, 52, 86, 120>>}

\* ::mmap; on success the DrmBuffer is constructed and the buffer's _size / 4
\* words are addressable.
Mmap ==
    /\ pc = "mmap"
    /\ \/ \E w0 \in InitialWords :
            /\ calls' = Append(calls, Call("mmap", <<_size, _fd>>, "addr"))
            /\ _mapped' = "addr"
            /\ pixels' = [k \in 1..(_size \div 4) |-> w0]
            /\ pc' = "fill"
            /\ UNCHANGED <<exc, errno, exc_code>>
       \/ \E e \in ErrnoValues :
          \E rs \in IgnoredResults(Len(Mmap_failed(_fd, _fb_id, _handle))) :
            /\ calls' = Append(calls, Errored(Call("mmap", <<_size, _fd>>, "MAP_FAILED"), e))
                           \o Issued(Mmap_failed(_fd, _fb_id, _handle), rs)
            /\ _mapped' = "MAP_FAILED"
            /\ throw_system_error(ErrnoAfter(e, rs), "Failed to mmap framebuffer", "dev_dtor")
            /\ UNCHANGED pixels
    /\ UNCHANGED <<argv, premultiplied, dev, _width, _height, _fb_id, _handle, _pitch,
                   _size, io>>

\* ------------------------------------------------ DrmBuffer::fill_chessboard
sq_sz == 64
\* 0xff808080
grey == <<255, 128, 128, 128>>
\* premultiplied ? 0x80808080 : 0x80ffffff
white(premult) == IF premult THEN <<128, 128, 128, 128>> ELSE <<128, 255, 255, 255>>

\* Variant with the two colours of the ternary exchanged.
PixelValue_exchanged(x, y, premult) ==
    IF ((x \div sq_sz) + (y \div sq_sz)) % 2 # 0 THEN white(premult) ELSE grey

\* ((x / sq_sz) + (y / sq_sz)) % 2 ? grey : white
PixelValue(x, y, premult) ==
    IF ((x \div sq_sz) + (y \div sq_sz)) % 2 # 0 THEN grey ELSE white(premult)

\* Variant that multiplies the row by the stride in bytes.
WordIndex_bytes(x, y, pitch) == y * pitch + x

\* y * (_pitch / 4) + x (far below 2^32 for every buffer of the model)
WordIndex(x, y, pitch) == y * (pitch \div 4) + x

\* Variant of the store that adds the value to the word, byte by byte.
Store_accumulate(old, value) == [b \in 1..4 |-> (old[b] + value[b]) % 256]

\* pixels[index] = value
Store(old, value) == value

\* The buffer after the two loops.  Rows are written in increasing y and each
\* row in increasing x, so word k ends with the value of the last pixel
\* whose index is k: the pixel of the highest row y that reaches k.
FillChessboard(mem, width, height, pitch, premult) ==
    [n \in 1..Len(mem) |->
        LET k == n - 1
            stride == pitch \div 4
            y == IF stride = 0 \/ k \div stride > height - 1 THEN height - 1
                 ELSE k \div stride
            x == k - y * stride
        IN  IF height > 0 /\ x < width /\ WordIndex(x, y, pitch) = k
            THEN Store(mem[n], PixelValue(x, y, premult))
            ELSE mem[n]]

\* ----------------------------------------------------- the rest of main()
\* buffer->fill_chessboard(premultiplied)
fill_chessboard ==
    /\ pc = "fill"
    /\ calls' = Append(calls, Call("fill_chessboard", <<premultiplied>>, 0))
    /\ pixels' = FillChessboard(pixels, _width, _height, _pitch, premultiplied)
    /\ pc' = "setcrtc"
    /\ UNCHANGED <<argv, premultiplied, exc, errno, exc_code, dev, _width, _height,
                   _fb_id, _handle, _pitch, _size, _mapped, io>>

\* Variant of set_crtc with the CRTC id and the framebuffer id exchanged.
SetCrtcArgs_swapped(fd, crtc_id, fb_id, connector, mode) ==
    <<fd, fb_id, crtc_id, 0, 0, connector.connector_id, 1, mode>>

\* The arguments DrmDevice::set_crtc passes to drmModeSetCrtc.
SetCrtcArgs(fd, crtc_id, fb_id, connector, mode) ==
    <<fd, crtc_id, fb_id, 0, 0, connector.connector_id, 1, mode>>

\* Variant of set_crtc that stores the framebuffer id in _crtc_id.
set_crtc_rebinding ==
    /\ pc = "setcrtc"
    /\ calls' = Append(calls, Call("drmModeSetCrtc",
                    SetCrtcArgs(_fd, _crtc_id, _fb_id, Deref(_connector), _mode), 0))
    /\ _crtc_id' = _fb_id
    /\ pc' = "print"
    /\ UNCHANGED <<argv, premultiplied, exc, errno, exc_code, _fd, _resources,
                   _connector, _encoder, _mode, i, buf, io>>

\* drm_device.set_crtc(buffer->fb_id()).  A throw destroys buffer, then
\* drm_device.
set_crtc ==
    /\ pc = "setcrtc"
    /\ LET args == SetCrtcArgs(_fd, _crtc_id, _fb_id, Deref(_connector), _mode) IN
       \/ /\ calls' = Append(calls, Call("drmModeSetCrtc", args, 0))
          /\ pc' = "print"
          /\ UNCHANGED <<exc, errno, exc_code>>
       \/ \E e \in ErrnoValues :
            /\ calls' = Append(calls, Errored(Call("drmModeSetCrtc", args, -1), e))
            /\ throw_system_error(e, "Failed to set CRTC", "buf_dtor")
    /\ UNCHANGED <<argv, premultiplied, dev, buf, io>>

\* The instruction line on std::cout.
Main_print ==
    /\ pc = "print"
    /\ out' = Append(out, Line("cout", "If you see a chessboard pattern, ",
                               IF premultiplied THEN "premultiplied" ELSE "straight"))
    /\ pc' = "wait"
    /\ UNCHANGED <<argv, premultiplied, exc, errno, exc_code, calls, dev, buf, status>>

\* Variant of main() that leaves the try block without reading std::cin.
Main_wait_skipped ==
    /\ pc = "wait"
    /\ pc' = "buf_dtor"
    /\ UNCHANGED <<argv, premultiplied, exc, errno, exc_code, calls, dev, buf, io>>

\* std::cin.get() returns (a character or EOF); the try block is left.
Main_wait ==
    /\ pc = "wait"
    /\ calls' = Append(calls, Call("cin.get", <<>>, 0))
    /\ pc' = "buf_dtor"
    /\ UNCHANGED <<argv, premultiplied, exc, errno, exc_code, dev, buf, io>>

\* Variant of DrmBuffer::cleanup that releases in acquisition order.
DrmBuffer_cleanup_reversed(fd, mapped, size, fb_id, handle) ==
    (IF handle # 0 THEN << DestroyDumb(fd, handle) >> ELSE <<>>)
    \o (IF fb_id # 0 THEN << RmFB(fd, fb_id) >> ELSE <<>>)
    \o (IF mapped # "nullptr" /\ mapped # "MAP_FAILED"
        THEN << Call("munmap", <<mapped, size>>, 0) >> ELSE <<>>)

\* DrmBuffer::cleanup
DrmBuffer_cleanup(fd, mapped, size, fb_id, handle) ==
    (IF mapped # "nullptr" /\ mapped # "MAP_FAILED"
     THEN << Call("munmap", <<mapped, size>>, 0) >> ELSE <<>>)
    \o (IF fb_id # 0 THEN << RmFB(fd, fb_id) >> ELSE <<>>)
    \o (IF handle # 0 THEN << DestroyDumb(fd, handle) >> ELSE <<>>)

\* DrmBuffer::~DrmBuffer, run when the unique_ptr `buffer` goes out of scope.
DrmBuffer_dtor ==
    /\ pc = "buf_dtor"
    /\ calls' = calls \o DrmBuffer_cleanup(_fd, _mapped, _size, _fb_id, _handle)
    /\ pc' = "dev_dtor"
    /\ UNCHANGED <<argv, premultiplied, exc, errno, exc_code, dev, buf, io>>

\* Variant of DrmDevice::cleanup that frees in acquisition order.
DrmDevice_cleanup_reversed(encoder, connector, resources) ==
    (IF resources # nullptr
     THEN << Call("drmModeFreeResources", <<>>, 0) >> ELSE <<>>)
    \o (IF connector # nullptr
        THEN << Call("drmModeFreeConnector", <<Deref(connector).connector_id>>, 0) >> ELSE <<>>)
    \o (IF encoder # nullptr
        THEN << Call("drmModeFreeEncoder", <<Deref(encoder).encoder_id>>, 0) >> ELSE <<>>)

\* DrmDevice::cleanup
DrmDevice_cleanup(encoder, connector, resources) ==
    (IF encoder # nullptr
     THEN << Call("drmModeFreeEncoder", <<Deref(encoder).encoder_id>>, 0) >> ELSE <<>>)
    \o (IF connector # nullptr
        THEN << Call("drmModeFreeConnector", <<Deref(connector).connector_id>>, 0) >> ELSE <<>>)
    \o (IF resources # nullptr
        THEN << Call("drmModeFreeResources", <<>>, 0) >> ELSE <<>>)

\* DrmDevice::~DrmDevice of a constructed drm_device: cleanup(), then the
\* member _fd is destroyed.
DrmDevice_dtor ==
    /\ pc = "dev_dtor"
    /\ calls' = calls \o DrmDevice_cleanup(_encoder, _connector, _resources)
                      \o autofd_dtor_calls(_fd)
    /\ pc' = IF exc = "" THEN "return" ELSE "catch"
    /\ UNCHANGED <<argv, premultiplied, exc, errno, exc_code, dev, buf, io>>

\* Variant of the handler that writes the diagnostic to std::cout.
catch_lines_cout(what) == << Line("cout", "Error: ", what) >>

\* std::cerr << "Error: " << e.what() << std::endl
catch_lines(what) == << Line("cerr", "Error: ", what) >>

\* catch (const std::exception& e): one line on std::cerr, return -1.
Main_catch ==
    /\ pc = "catch"
    /\ out' = out \o catch_lines(exc)
    /\ status' = -1
    /\ pc' = "exited"
    /\ UNCHANGED <<argv, premultiplied, exc, errno, exc_code, calls, dev, buf>>

\* return 0
Main_return ==
    /\ pc = "return"
    /\ status' = 0
    /\ pc' = "exited"
    /\ UNCHANGED <<argv, premultiplied, exc, errno, exc_code, calls, dev, buf, out>>

Next ==
    \/ Main_args
    \/ autofd_ctor
    \/ GetResources
    \/ ScanConnector
    \/ ScanEnd
    \/ SelectMode
    \/ GetEncoder
    \/ FindCrtc
    \/ DrmDevice_ctor_unwind
    \/ CreateDumb
    \/ AddFB2
    \/ MapDumb
    \/ Mmap
    \/ fill_chessboard
    \/ set_crtc
    \/ Main_print
    \/ Main_wait
    \/ DrmBuffer_dtor
    \/ DrmDevice_dtor
    \/ Main_catch
    \/ Main_return

Spec == Init /\ [][Next]_vars

\* ------------------------------------------- fill_chessboard on real sizes
\* The pattern only shows on surfaces wider or higher than one 64-pixel tile.
\* SpecFill starts where main() calls fill_chessboard, in the state a run
\* reaches with one connected connector that advertises one mode, an encoder
\* without a bound CRTC whose mask selects CRTC 0, and a constructed surface;
\* the mode is 1, 64 * t or 64 * t + 1 pixels wide and high, t <= MaxTiles.
FillSizes == {1} \cup {sq_sz * t + d : t \in 1..MaxTiles, d \in {0, 1}}
FillModes == {[hdisplay |-> w, vdisplay |-> h] : w \in FillSizes, h \in FillSizes}

\* The state of a run with argument a, mode m, pitch p, framebuffer id f and
\* initial buffer word w0 when it is about to call fill_chessboard.
AtFill(a, m, p, f, w0) ==
    LET res == Ptr([count_connectors |-> 1, count_crtcs |-> 1])
        conn == Ptr([connector_id |-> ConnectorId(0), connection |-> "DRM_MODE_CONNECTED",
                     encoder_id |-> 50, modes |-> <<m>>])
        enc == Ptr([encoder_id |-> 50, crtc_id |-> 0, possible_crtcs |-> 1])
    IN  /\ pc = "fill"
        /\ argv = << <<a>> >>
        /\ premultiplied = (a = "p")
        /\ exc = ""
        /\ exc_code = "none"
        /\ errno = "none"
        /\ calls = << Call("open", <<"/dev/dri/card0">>, 3),
                      Call("drmModeGetResources", <<3>>, res),
                      Call("drmModeGetConnector", <<3, ConnectorId(0)>>, conn),
                      Call("drmModeGetEncoder", <<3, 50>>, enc),
                      Call("DRM_IOCTL_MODE_CREATE_DUMB", <<3, m.hdisplay, m.vdisplay, 32>>, 0),
                      Call("drmModeAddFB2",
                           <<3, m.hdisplay, m.vdisplay, "DRM_FORMAT_ARGB8888", 1, p, 0>>, f),
                      Call("DRM_IOCTL_MODE_MAP_DUMB", <<3, 1>>, 0),
                      Call("mmap", <<p * m.vdisplay, 3>>, "addr") >>
        /\ out = <<>>
        /\ status = 0
        /\ _fd = 3
        /\ _resources = res
        /\ _connector = conn
        /\ _encoder = enc
        /\ _mode = m
        /\ _crtc_id = CrtcId(0)
        /\ i = 0
        /\ _width = m.hdisplay /\ _height = m.vdisplay
        /\ _fb_id = f
        /\ _handle = 1 /\ _pitch = p /\ _size = p * m.vdisplay
        /\ _mapped = "addr"
        /\ pixels = [k \in 1..((p * m.vdisplay) \div 4) |-> w0]

InitFill ==
    \E a \in {"p", "s"}, m \in FillModes, w0 \in InitialWords :
        \E p \in PitchValues(m.hdisplay) : AtFill(a, m, p, 60, w0)

SpecFill == InitFill /\ [][fill_chessboard]_vars

\* ------------------------------------------------- reading the call log
At(op) == {k \in DOMAIN calls : calls[k].op = op}
Count(op) == Cardinality(At(op))
Failed(op) == \E k \in At(op) : calls[k].ret = -1

DestroysOf(handle) ==
    {k \in At("DRM_IOCTL_MODE_DESTROY_DUMB") : calls[k].args[2] = handle}
RmFBsOf(fb_id) == {k \in At("drmModeRmFB") : calls[k].args[2] = fb_id}

\* ---------------------------------------------------------------- C1
\* C1: when drmModeAddFB2 fails, the dumb buffer created just before is
\* destroyed exactly once in the whole run (in the state right after the
\* failure and in every later one, the end of the run included), and no
\* MAP_DUMB, no mmap and no drmModeRmFB is ever issued.
C1_RegisterFailureUnwinds ==
    Failed("drmModeAddFB2") =>
        /\ Count("DRM_IOCTL_MODE_CREATE_DUMB") = 1
        /\ Cardinality(DestroysOf(_handle)) = 1
        /\ Count("DRM_IOCTL_MODE_DESTROY_DUMB") = 1
        /\ \A d \in DestroysOf(_handle) : \A a \in At("drmModeAddFB2") : a < d
        /\ Count("DRM_IOCTL_MODE_MAP_DUMB") = 0
        /\ Count("mmap") = 0
        /\ Count("drmModeRmFB") = 0

C1_Witness == pc = "exited" /\ Failed("drmModeAddFB2")

\* ---------------------------------------------------------------- C2
MmapFailed == \E k \in At("mmap") : calls[k].ret = "MAP_FAILED"

\* C2: when MAP_DUMB or mmap fails, the framebuffer is removed and then the
\* dumb buffer destroyed, in that order, after the failed call, each exactly
\* once in the whole run, already in the state in which the exception is in
\* flight; munmap is never issued.
C2_MapFailureUnwinds ==
    (Failed("DRM_IOCTL_MODE_MAP_DUMB") \/ MmapFailed) =>
        /\ exc # ""
        /\ Count("drmModeRmFB") = 1
        /\ Count("DRM_IOCTL_MODE_DESTROY_DUMB") = 1
        /\ \E r \in RmFBsOf(_fb_id), d \in DestroysOf(_handle) :
              /\ r < d
              /\ \A m \in At("DRM_IOCTL_MODE_MAP_DUMB") \cup At("mmap") : m < r
        /\ Count("munmap") = 0

C2_Witness == pc = "exited" /\ MmapFailed

C2_WitnessMapDumb == pc = "exited" /\ Failed("DRM_IOCTL_MODE_MAP_DUMB")

\* ---------------------------------------------------------------- C3
Closes == At("close")
FreesOfConnector(id) == {k \in At("drmModeFreeConnector") : calls[k].args[1] = id}

\* A descriptor obtained at position k is released exactly once by `frees`,
\* after it was obtained and before the device handle is closed.
ReleasedOnce(k, frees) ==
    /\ Cardinality(frees) = 1
    /\ \A f \in frees : k < f /\ \A c \in Closes : f < c

\* C3: when main() has returned, every descriptor that was obtained (the
\* resource list, every connector descriptor, the encoder) has been freed
\* exactly once, before the close of the device handle.
C3_AllDescriptorsReleased ==
    pc = "exited" =>
        /\ \A k \in At("drmModeGetResources") :
              calls[k].ret # nullptr => ReleasedOnce(k, At("drmModeFreeResources"))
        /\ \A k \in At("drmModeGetConnector") :
              calls[k].ret # nullptr =>
                  ReleasedOnce(k, FreesOfConnector(Deref(calls[k].ret).connector_id))
        /\ \A k \in At("drmModeGetEncoder") :
              calls[k].ret # nullptr => ReleasedOnce(k, At("drmModeFreeEncoder"))

\* ---------------------------------------------------------------- C4
Opened == \E k \in At("open") : calls[k].ret # -1

MmapOk == \E k \in At("mmap") : calls[k].ret = "addr"
SurfaceReleases ==
    SelectSeq(calls, LAMBDA c : c.op \in {"munmap", "drmModeRmFB", "DRM_IOCTL_MODE_DESTROY_DUMB"})
OpsOf(cs) == [k \in DOMAIN cs |-> cs[k].op]

\* C5: for a surface whose construction completed, nothing of it is released
\* while it is alive, and once it is destroyed (after the input was read, or
\* because drmModeSetCrtc failed) the releases issued in the whole run are
\* munmap of the mapping, drmModeRmFB of its framebuffer and DESTROY_DUMB of
\* its handle, in this order, each once.
C5_SurfaceTeardownOrder ==
    MmapOk =>
        IF pc \in {"fill", "setcrtc", "print", "wait", "buf_dtor"}
        THEN SurfaceReleases = <<>>
        ELSE /\ OpsOf(SurfaceReleases) =
                    <<"munmap", "drmModeRmFB", "DRM_IOCTL_MODE_DESTROY_DUMB">>
             /\ SurfaceReleases[1].args = <<_mapped, _size>>
             /\ SurfaceReleases[2].args = <<_fd, _fb_id>>
             /\ SurfaceReleases[3].args = <<_fd, _handle>>

C5_Witness == pc = "exited" /\ MmapOk /\ Failed("drmModeSetCrtc")

C5_WitnessNormalExit == pc = "exited" /\ MmapOk /\ status = 0

\* ---------------------------------------------------------------- C6
\* initialize() returned: only then is _crtc_id non-zero.
DeviceConstructed == _crtc_id # 0 /\ pc # "crtc"

\* The releases of the controller: the frees of the descriptors it holds and
\* the close (the frees of connectors discarded by the scan are not among them).
ControllerReleases ==
    SelectSeq(calls, LAMBDA c :
        \/ c.op \in {"drmModeFreeEncoder", "drmModeFreeResources", "close"}
        \/ c.op = "drmModeFreeConnector" /\ _connector # nullptr
              /\ c.args[1] = Deref(_connector).connector_id)

\* C6: a constructed controller releases nothing while it is alive, and its
\* destruction issues drmModeFreeEncoder, drmModeFreeConnector of the selected
\* connector, drmModeFreeResources and close, in this order, each once.
C6_ControllerTeardownOrder ==
    DeviceConstructed =>
        IF pc \in {"return", "catch", "exited"}
        THEN /\ OpsOf(ControllerReleases) =
                    <<"drmModeFreeEncoder", "drmModeFreeConnector",
                      "drmModeFreeResources", "close">>
             /\ ControllerReleases[1].args = <<Deref(_encoder).encoder_id>>
             /\ ControllerReleases[4].args = <<_fd>>
        ELSE ControllerReleases = <<>>

C6_Witness == pc = "exited" /\ DeviceConstructed /\ status = 0

\* ---------------------------------------------------------------- C7
Queries == SelectSeq(calls, LAMBDA c : c.op = "drmModeGetConnector")
ScanOver == pc \notin {"main", "open", "getres", "scan", "crashed"} /\ _resources # nullptr
Connected(ret) == ret # nullptr /\ Deref(ret).connection = "DRM_MODE_CONNECTED"
NotConnected(ret) == ret # nullptr /\ Deref(ret).connection # "DRM_MODE_CONNECTED"

\* Every listed connector was queried and reported a state other than connected.
NoneConnected ==
    /\ ScanOver
    /\ Len(Queries) = Deref(_resources).count_connectors
    /\ \A q \in DOMAIN Queries : NotConnected(Queries[q].ret)

\* C7: when every connector of the list (the empty list included) reports a
\* state other than connected, initialize() throws "No connected connector
\* found", every descriptor the scan obtained has been freed exactly once,
\* _connector is null, and no encoder query, no CREATE_DUMB and no
\* drmModeSetCrtc is ever issued.
C7_NoDisplay ==
    NoneConnected =>
        /\ _connector = nullptr
        /\ pc \in {"checkconn", "ctor_unwind", "catch", "exited"}
        /\ pc # "checkconn" => exc = "No connected connector found"
        /\ \A q \in DOMAIN Queries :
              Cardinality(FreesOfConnector(Deref(Queries[q].ret).connector_id)) = 1
        /\ Count("drmModeFreeConnector") = Len(Queries)
        /\ Count("drmModeGetEncoder") = 0
        /\ Count("DRM_IOCTL_MODE_CREATE_DUMB") = 0
        /\ Count("drmModeSetCrtc") = 0

C7_Witness ==
    /\ pc = "exited"
    /\ NoneConnected
    /\ Len(Queries) = 2
    /\ Deref(Queries[1].ret).connection # Deref(Queries[2].ret).connection

C7_WitnessEmptyList == pc = "exited" /\ NoneConnected /\ Len(Queries) = 0

\* ---------------------------------------------------------------- C8
\* Every query made so far returned a descriptor.
AllDescribed == \A q \in DOMAIN Queries : Queries[q].ret # nullptr

\* C8: the scan queries the listed connectors in list order, each once; it
\* stops at the first descriptor whose state is connected and holds on to it:
\* every connector queried before it was not connected and its descriptor
\* has been freed exactly once, the selected one is not freed before the
\* destruction of the controller, and no later connector is queried.  When
\* the scan ends without a selection, every listed connector was queried and
\* none was connected.  (Stated for runs in which every query returned a
\* descriptor.)
C8_FirstConnectedSelected ==
    AllDescribed =>
        /\ \A q \in DOMAIN Queries : Queries[q].args[2] = ConnectorId(q - 1)
        /\ \A q \in DOMAIN Queries :
              IF Connected(Queries[q].ret)
              THEN /\ q = Len(Queries)
                   /\ _connector = Queries[q].ret
                   /\ pc \notin {"return", "catch", "exited"} =>
                        FreesOfConnector(ConnectorId(q - 1)) = {}
                   /\ Cardinality(FreesOfConnector(ConnectorId(q - 1))) <= 1
              ELSE Cardinality(FreesOfConnector(ConnectorId(q - 1))) = 1
        /\ (ScanOver /\ _connector = nullptr) => NoneConnected
        /\ _connector # nullptr => Connected(Queries[Len(Queries)].ret)

C8_Witness ==
    /\ pc = "exited"
    /\ AllDescribed
    /\ Len(Queries) = 2
    /\ Deref(Queries[1].ret).connection = "DRM_MODE_UNKNOWNCONNECTION"
    /\ _connector # nullptr
    /\ Deref(_resources).count_connectors = 2
    /\ status = 0

\* ---------------------------------------------------------------- C9
\* FindCrtc has run.
CrtcStepDone == _encoder # nullptr /\ pc # "crtc"
Eligible(k) ==
    /\ k \in 0..(Deref(_resources).count_crtcs - 1)
    /\ (Deref(_encoder).possible_crtcs \div (2^k)) % 2 = 1

\* C9: after the CRTC step, _crtc_id is the encoder's crtc_id when that is
\* non-zero; otherwise it is crtcs[k] for the smallest k below count_crtcs
\* whose bit is set in possible_crtcs; and "Failed to find CRTC" is thrown
\* exactly when crtc_id is zero and no such k exists.
C9_CrtcResolution ==
    CrtcStepDone =>
        /\ Deref(_encoder).crtc_id # 0 => _crtc_id = Deref(_encoder).crtc_id
        /\ (Deref(_encoder).crtc_id = 0 /\ \E k \in 0..MaxCrtcs : Eligible(k)) =>
              \E k \in 0..MaxCrtcs :
                  /\ Eligible(k)
                  /\ \A m \in 0..(k - 1) : ~Eligible(m)
                  /\ _crtc_id = CrtcId(k)
        /\ (exc = "Failed to find CRTC") <=>
              (Deref(_encoder).crtc_id = 0 /\ ~\E k \in 0..MaxCrtcs : Eligible(k))
        /\ (exc = "Failed to find CRTC") => pc \in {"ctor_unwind", "catch", "exited"}
        /\ (exc # "Failed to find CRTC") => pc \notin {"ctor_unwind"}

C9_Witness ==
    /\ CrtcStepDone
    /\ Deref(_encoder).crtc_id = 0
    /\ Deref(_encoder).possible_crtcs = 2
    /\ Deref(_resources).count_crtcs = 2
    /\ _crtc_id = CrtcId(1)
    /\ pc = "exited"

C9_WitnessNoCrtc ==
    /\ pc = "exited" /\ exc = "Failed to find CRTC"
    /\ Deref(_encoder).possible_crtcs = 2 /\ Deref(_resources).count_crtcs = 1

\* --------------------------------------------------------------- C10
SetCrtcs == SelectSeq(calls, LAMBDA c : c.op = "drmModeSetCrtc")
CreateDumbs == SelectSeq(calls, LAMBDA c : c.op = "DRM_IOCTL_MODE_CREATE_DUMB")
AddFB2s == SelectSeq(calls, LAMBDA c : c.op = "drmModeAddFB2")

\* C10: drmModeSetCrtc is issued only for a constructed surface and at most
\* once; once the surface is constructed and filled and set_crtc has run, it
\* was issued exactly once, on the device handle, with the resolved CRTC, the
\* framebuffer id drmModeAddFB2 returned, x = 0, y = 0, the id of the selected
\* connector (count 1) and the mode read at discovery, which is the first
\* mode of the selected connector; the dumb buffer was requested with the
\* hdisplay and vdisplay of that mode.
C10_SingleModeSet ==
    /\ Len(SetCrtcs) <= 1
    /\ Len(SetCrtcs) = 1 => MmapOk
    /\ (MmapOk /\ pc \notin {"fill", "setcrtc"}) =>
          /\ Len(SetCrtcs) = 1
          /\ Len(AddFB2s) = 1
          /\ Len(CreateDumbs) = 1
          /\ LET a == SetCrtcs[1].args
                 conn == Queries[Len(Queries)].ret
             IN  /\ Len(a) = 8
                 /\ a[1] = _fd
                 /\ a[2] = _crtc_id
                 /\ a[3] = AddFB2s[1].ret
                 /\ a[4] = 0 /\ a[5] = 0
                 /\ Connected(conn)
                 /\ a[6] = Deref(conn).connector_id
                 /\ a[7] = 1
                 /\ a[8] = _mode
                 /\ Len(Deref(conn).modes) > 0 => a[8] = Deref(conn).modes[1]
                 /\ CreateDumbs[1].args = <<_fd, a[8].hdisplay, a[8].vdisplay, 32>>

C10_Witness ==
    /\ pc = "exited"
    /\ status = 0
    /\ Len(SetCrtcs) = 1
    /\ Len(Deref(_connector).modes) = 2
    /\ SetCrtcs[1].ret = 0

\* --------------------------------------------------------------- C11
ErrorLines == SelectSeq(out, LAMBDA l : l.stream = "cerr")
InstructionLines ==
    SelectSeq(out, LAMBDA l : l.stream = "cout" /\ l.text = "If you see a chessboard pattern, ")

\* The core failures, read from the calls and their results.
OpenFailed == \E k \in At("open") : calls[k].ret = -1
ResourceQueryFailed == \E k \in At("drmModeGetResources") : calls[k].ret = nullptr
NoDisplay == ScanOver /\ _connector = nullptr
EncoderFailed == \E k \in At("drmModeGetEncoder") : calls[k].ret = nullptr
NoCrtc == CrtcStepDone /\ _crtc_id = 0
CoreFailure ==
    \/ OpenFailed \/ ResourceQueryFailed \/ NoDisplay \/ EncoderFailed \/ NoCrtc
    \/ Failed("DRM_IOCTL_MODE_CREATE_DUMB") \/ Failed("drmModeAddFB2")
    \/ Failed("DRM_IOCTL_MODE_MAP_DUMB") \/ MmapFailed \/ Failed("drmModeSetCrtc")

\* C11: when main() has returned from a run that got past the arguments,
\* then after any core failure std::cerr holds exactly one line, "Error: "
\* followed by what() of the failure, the instruction line was not printed,
\* std::cin was not read and the return value is non-zero; without a core
\* failure std::cerr holds nothing and the return value is 0.
C11_OneErrorLine ==
    (pc = "exited" /\ calls # <<>>) =>
        IF CoreFailure
        THEN /\ Len(ErrorLines) = 1
             /\ ErrorLines[1].text = "Error: "
             /\ ErrorLines[1].what = exc
             /\ exc # ""
             /\ InstructionLines = <<>>
             /\ Count("cin.get") = 0
             /\ status # 0
        ELSE /\ ErrorLines = <<>>
             /\ Len(InstructionLines) = 1
             /\ status = 0

C11_Witness == pc = "exited" /\ Failed("drmModeSetCrtc") /\ Len(ErrorLines) = 1

C11_WitnessSuccess == pc = "exited" /\ calls # <<>> /\ ~CoreFailure

\* --------------------------------------------------------------- C12
\* The error number stored by the failed call of `op`.
ErrnoOf(op) == {calls[k].errno : k \in {j \in At(op) : "errno" \in DOMAIN calls[j]}}

\* C12: the exception of a failed surface acquisition (drmModeAddFB2,
\* MAP_DUMB, mmap) carries the error number that the failed acquisition call
\* stored in errno, whatever the cleanup calls issued before the throw did.
C12_AcquisitionErrnoSurfaced ==
    /\ exc = "Failed to add framebuffer" => ErrnoOf("drmModeAddFB2") = {exc_code}
    /\ exc = "Failed to map dumb buffer" => ErrnoOf("DRM_IOCTL_MODE_MAP_DUMB") = {exc_code}
    /\ exc = "Failed to mmap framebuffer" => ErrnoOf("mmap") = {exc_code}

\* --------------------------------------------------------------- C13
\* The word of pixel (x, y): index y * (stride / 4) + x.
PixelAt(x, y) == pixels[y * (_pitch \div 4) + x + 1]
Filled == pc \notin {"main", "open", "getres", "scan", "checkconn", "getenc", "crtc",
                     "alloc", "addfb", "mapdumb", "mmap", "fill", "crashed"}
            /\ Count("fill_chessboard") = 1

\* C13: after fill_chessboard, every pixel (x, y) with x < width, y < height
\* holds 0xFF808080 when (x / 64 + y / 64) mod 2 = 1, and otherwise 0x80808080
\* for premultiplied and 0x80FFFFFF for straight; so no word of the buffer is
\* 0x80FFFFFF after a premultiplied fill and none is 0x80808080 after a
\* straight one.
C13_Chessboard ==
    Filled =>
        /\ \A x \in 0..(_width - 1), y \in 0..(_height - 1) :
              PixelAt(x, y) =
                  IF ((x \div 64) + (y \div 64)) % 2 = 1 THEN <<255, 128, 128, 128>>
                  ELSE IF premultiplied THEN <<128, 128, 128, 128>>
                       ELSE <<128, 255, 255, 255>>
        /\ \A k \in DOMAIN pixels :
              pixels[k] # (IF premultiplied THEN <<128, 255, 255, 255>>
                           ELSE <<128, 128, 128, 128>>)

C13_Witness ==
    /\ Filled
    /\ _width = 129 /\ _height = 65
    /\ ~premultiplied
    /\ PixelAt(64, 64) = <<128, 255, 255, 255>>
    /\ PixelAt(128, 64) = <<255, 128, 128, 128>>
    /\ PixelAt(63, 64) = <<255, 128, 128, 128>>
    /\ PixelAt(128, 0) = <<128, 255, 255, 255>>

\* --------------------------------------------------------------- C14
\* The command lines the usage text names: one argument, exactly p or s.
Accepted == argv \in {<< <<"p">> >>, << <<"s">> >>}
UsagePrinted == Len(out) >= 1 /\ out[1] = Line("cout", "Usage: dp-alpha p|s", "")

\* C14: for every command line other than exactly one argument that is exactly
\* "p" or exactly "s", the program never opens the device (issues no call at
\* all), prints the usage message and exits with a non-zero status.
C14_OnlyExactArguments ==
    ~Accepted =>
        /\ pc # "main" => pc = "exited"
        /\ calls = <<>>
        /\ pc = "exited" => UsagePrinted /\ status # 0

\* --------------------------------------------------------------- C15
\* The topology DrmDevice::initialize resolved.
topology == <<_connector, _mode, _encoder, _crtc_id>>

\* C15: once the constructor of the controller has succeeded, no later step
\* (create_buffer and every step of DrmBuffer::create, fill_chessboard,
\* set_crtc, succeeding or failing, the output, the wait and the destructors)
\* changes the selected connector, the mode, the encoder or the CRTC id.
C15_TopologyImmutable == [][DeviceConstructed => topology' = topology]_vars

C15_Witness ==
    /\ pc = "exited"
    /\ DeviceConstructed
    /\ Count("DRM_IOCTL_MODE_CREATE_DUMB") = 1
    /\ Failed("drmModeSetCrtc")
    /\ _connector # nullptr /\ _encoder # nullptr

C15_WitnessCreateFails ==
    pc = "exited" /\ DeviceConstructed /\ Failed("DRM_IOCTL_MODE_MAP_DUMB")

\* --------------------------------------------------------------- C16
CreateDumbOk == \E k \in At("DRM_IOCTL_MODE_CREATE_DUMB") : calls[k].ret = 0

\* C16: from the moment DRM_IOCTL_MODE_CREATE_DUMB has succeeded, and so for
\* every constructed surface, the recorded stride is at least width * 4 bytes,
\* whichever pitch the call returned; it is the pitch handed to drmModeAddFB2.
C16_StrideCoversRow ==
    CreateDumbOk =>
        /\ _pitch >= _width * 4
        /\ \A k \in At("drmModeAddFB2") : calls[k].args[6] = _pitch

C16_Witness == MmapOk /\ _width = 2 /\ _pitch = 12
C16_WitnessTight == MmapOk /\ _width = 2 /\ _pitch = 8

\* --------------------------------------------------------------- C17
\* C17: a second fill_chessboard with the same convention, applied to the
\* buffer the first one left, yields that buffer again, word for word.
C17_FillIdempotent ==
    Filled => FillChessboard(pixels, _width, _height, _pitch, premultiplied) = pixels

C17_Witness ==
    /\ Filled
    /\ _width = 65 /\ _height = 64 /\ _pitch = 264
    /\ pixels[1] # pixels[65]
    /\ pixels[66] \in InitialWords
    /\ FillChessboard(pixels, _width, _height, _pitch, premultiplied) = pixels

\* --------------------------------------------------------------- C18
\* Call k was issued after a call of the query op that returned a descriptor.
AfterOk(op, k) == \E j \in At(op) : j < k /\ calls[j].ret # nullptr
IsRelease(c) ==
    \/ c.op \in {"munmap", "drmModeRmFB", "DRM_IOCTL_MODE_DESTROY_DUMB",
                 "drmModeFreeEncoder", "drmModeFreeResources", "close"}
    \/ c.op = "drmModeFreeConnector" /\ _connector # nullptr
          /\ c.args[1] = Deref(_connector).connector_id

\* C18: the dumb buffer is requested only by a run whose discovery succeeded
\* (open, resources, a selected connector, its encoder and a CRTC, all before
\* the request); fill_chessboard runs only right after CREATE_DUMB,
\* drmModeAddFB2, MAP_DUMB and mmap succeeded, in this order, and none of
\* them ever failed in the run; drmModeSetCrtc is issued only
\* after fill_chessboard; the instruction line is on std::cout only when
\* drmModeSetCrtc has succeeded; and while nothing has failed, nothing of the
\* surface or of the controller is released before std::cin.get() returned.
C18_PhasesOrdered ==
    /\ \A k \in At("DRM_IOCTL_MODE_CREATE_DUMB") :
          /\ DeviceConstructed
          /\ _connector # nullptr
          /\ \E j \in At("open") : j < k /\ calls[j].ret # -1
          /\ AfterOk("drmModeGetResources", k)
          /\ AfterOk("drmModeGetConnector", k) /\ AfterOk("drmModeGetEncoder", k)
          /\ ~ \E j \in At("drmModeGetEncoder") : calls[j].ret = nullptr
    /\ \A k \in At("fill_chessboard") :
          /\ k > 4
          /\ calls[k - 4].op = "DRM_IOCTL_MODE_CREATE_DUMB" /\ calls[k - 4].ret = 0
          /\ calls[k - 3].op = "drmModeAddFB2" /\ calls[k - 3].ret # -1
          /\ calls[k - 2].op = "DRM_IOCTL_MODE_MAP_DUMB" /\ calls[k - 2].ret = 0
          /\ calls[k - 1].op = "mmap" /\ calls[k - 1].ret = "addr"
          /\ ~Failed("DRM_IOCTL_MODE_CREATE_DUMB") /\ ~Failed("drmModeAddFB2")
          /\ ~Failed("DRM_IOCTL_MODE_MAP_DUMB") /\ ~MmapFailed
    /\ \A k \in At("drmModeSetCrtc") : \E j \in At("fill_chessboard") : j < k
    /\ pc = "setcrtc" <=> (Count("fill_chessboard") = 1 /\ Count("drmModeSetCrtc") = 0)
    /\ InstructionLines # <<>> =>
          \E k \in At("drmModeSetCrtc") : calls[k].ret = 0
    /\ ~CoreFailure =>
          \A k \in DOMAIN calls :
              IsRelease(calls[k]) => \E j \in At("cin.get") : j < k

C18_Witness ==
    /\ pc = "exited"
    /\ ~CoreFailure
    /\ Count("cin.get") = 1
    /\ Len(InstructionLines) = 1
    /\ Len(SurfaceReleases) = 3
    /\ Len(ControllerReleases) = 4

\* --------------------------------------------------------------- C19
\* The 1-based positions in pixels of the words of pixels (x, y), x < width,
\* y < height, and of the padding words of the rows.
PixelWords ==
    {y * (_pitch \div 4) + x + 1 : x \in 0..(_width - 1), y \in 0..(_height - 1)}
PaddingWords ==
    {y * (_pitch \div 4) + c + 1 :
        c \in _width..((_pitch \div 4) - 1), y \in 0..(_height - 1)}

\* C19: the step fill_chessboard is taken only while the mapping is live
\* (mmap returned an address, munmap was not issued) and covers _size bytes,
\* with _pitch >= 4 * _width and _size >= _pitch * _height; every index it
\* computes lies inside the mapping; it changes no word other than those of
\* the pixels, so every padding word keeps its value; and no other step
\* after the mapping was made writes to the buffer.
C19_FillFrame ==
    [][/\ pc = "fill" =>
            /\ _mapped = "addr" /\ MmapOk /\ Count("munmap") = 0
            /\ Len(pixels) = _size \div 4
            /\ _pitch >= 4 * _width /\ _size >= _pitch * _height
            /\ \A x \in 0..(_width - 1), y \in 0..(_height - 1) :
                  WordIndex(x, y, _pitch) \in 0..((_size \div 4) - 1)
            /\ DOMAIN pixels' = DOMAIN pixels
            /\ \A k \in DOMAIN pixels : pixels'[k] # pixels[k] => k \in PixelWords
            /\ \A k \in PaddingWords : pixels'[k] = pixels[k]
       /\ pc \notin {"fill", "mmap"} => pixels' = pixels]_vars

C19_Witness ==
    /\ Filled
    /\ _width = 1 /\ _height = 2 /\ _pitch = 8
    /\ PaddingWords = {2, 4}
    /\ pixels[2] \in InitialWords /\ pixels[4] = pixels[2]
    /\ pixels[1] \notin InitialWords /\ pixels[3] \notin InitialWords

\* --------------------------------------------------------------- C20
\* A connector query returned no descriptor.
NullQuery == \E k \in At("drmModeGetConnector") : calls[k].ret = nullptr
\* The mode was taken from a selected connector that advertises no mode.
NoModeRead ==
    /\ _connector # nullptr
    /\ Len(Deref(_connector).modes) = 0
    /\ pc \notin {"scan", "checkconn"}

\* C20: when a connector query returned no descriptor, or the selected
\* connected connector advertises no mode, nothing is read through the missing
\* descriptor or mode entry: the process is not killed, discovery does not
\* complete (no buffer is ever requested), and the run ends with the
\* diagnostic of an error.
C20_NoReadThroughMissing ==
    (NullQuery \/ NoModeRead) =>
        /\ pc # "crashed"
        /\ Count("DRM_IOCTL_MODE_CREATE_DUMB") = 0
        /\ pc = "exited" => exc # "" /\ Len(ErrorLines) = 1

\* The same for the missing mode entry alone.
C20_NoModeIsAnError ==
    NoModeRead =>
        /\ pc # "crashed"
        /\ Count("DRM_IOCTL_MODE_CREATE_DUMB") = 0

====
